---- MODULE Spec2Model ----
(***************************************************************************)
(* Model of HumidityProcessor (src/humidity_pipeline.py): the six-stage    *)
(* pipeline download -> monthly split -> land-filtered GeoJSON polygons -> *)
(* MBTiles (tippecanoe) -> tileserver config -> web viewer.                *)
(*                                                                         *)
(* Coordinates and grid spacings are integers in sixteenths of a degree    *)
(* (10.0 deg = 160, 0.5 deg = 8, 0.625 deg = 10), so that the halving the  *)
(* code does with "/ 2" is exact on the grids used here.  Humidity values  *)
(* are integers; a missing value is the value NaN.  File names, CSV fields *)
(* and layer names are strings, built and taken apart as the code does.    *)
(***************************************************************************)
EXTENDS Integers, Sequences, FiniteSets, TLC

(***************************************************************************)
(* Bounds of the model.                                                    *)
(***************************************************************************)
\* largest number of timestamps on the time axis of the remote store
MaxTimes == 2
\* largest number of rows of a monthly CSV handed directly to stage 3
MaxRows == 3

(***************************************************************************)
(* Configuration (HumidityProcessor.__init__).                             *)
(***************************************************************************)
VARIABLE_ == "RH2M"
OUTPUT_DIR == "humidity_data_output"
MBTILES_DIR == "humidity_mbtiles_output"

\* the missing value (numpy NaN); pd.isna(v) is v = NaN
NaN == -1
isna(v) == v = NaN

(***************************************************************************)
(* Strings and paths.                                                      *)
(***************************************************************************)
\* format spec ":02d"
Pad2(n) == IF n < 10 THEN "0" \o ToString(n) ELSE ToString(n)

\* str.replace(old, new): every non-overlapping occurrence, left to right
RECURSIVE StrReplace(_, _, _)
StrReplace(s, old, new) ==
    IF Len(s) < Len(old) THEN s
    ELSE IF SubSeq(s, 1, Len(old)) = old
         THEN new \o StrReplace(SubSeq(s, Len(old) + 1, Len(s)), old, new)
         ELSE SubSeq(s, 1, 1) \o StrReplace(SubSeq(s, 2, Len(s)), old, new)

\* os.path.basename: what follows the last "/"
basename(p) ==
    LET slashes == {k \in 1..Len(p) : SubSeq(p, k, k) = "/"}
        last == IF slashes = {} THEN 0
                ELSE CHOOSE k \in slashes : \A j \in slashes : j <= k
    IN SubSeq(p, last + 1, Len(p))

\* os.path.join of a directory and a file name
join(dir, name) == dir \o "/" \o name

\* value of a decimal digit character
DigitVal(c) == CHOOSE d \in 0..9 : ToString(d) = c

\* integer written in decimal, as read_csv parses a numeric field
RECURSIVE ParseNat(_)
ParseNat(s) ==
    IF Len(s) = 0 THEN 0
    ELSE 10 * ParseNat(SubSeq(s, 1, Len(s) - 1)) + DigitVal(SubSeq(s, Len(s), Len(s)))

ParseInt(s) ==
    IF SubSeq(s, 1, 1) = "-" THEN 0 - ParseNat(SubSeq(s, 2, Len(s))) ELSE ParseNat(s)

(***************************************************************************)
(* Timestamps.                                                             *)
(***************************************************************************)
Timestamp(y, m, d) == [year |-> y, month |-> m, day |-> d]

\* chronological order of timestamps
TimeKey(t) == t.year * 10000 + t.month * 100 + t.day

\* the timestamps a store's time axis is drawn from
CandidateTimes ==
    { Timestamp(2021, 12, 1), Timestamp(2022, 1, 1), Timestamp(2024, 5, 1),
      Timestamp(2024, 6, 1), Timestamp(2024, 6, 15), Timestamp(2025, 5, 1),
      Timestamp(2025, 6, 1) }

\* time_filter with the end month excluded
time_filter_exclusive_end(t) ==
    LET start_condition == (t.year > 2021) \/ ((t.year = 2022) /\ (t.month >= 1))
        end_condition == (t.year < 2025) \/ ((t.year = 2025) /\ (t.month < 5))
    IN start_condition /\ end_condition

\* HumidityProcessor.time_filter
time_filter(t) ==
    LET start_condition == (t.year > 2021) \/ ((t.year = 2022) /\ (t.month >= 1))
        end_condition == (t.year < 2025) \/ ((t.year = 2025) /\ (t.month <= 5))
    IN start_condition /\ end_condition

\* sorted(...) of a finite set of numbers: ascending sequence
RECURSIVE sorted(_)
sorted(S) ==
    IF S = {} THEN <<>>
    ELSE LET lo == CHOOSE x \in S : \A y \in S : x <= y
         IN <<lo>> \o sorted(S \ {lo})

\* a time axis: the timestamps of T in chronological order
RECURSIVE TimeAxis(_)
TimeAxis(T) ==
    IF T = {} THEN <<>>
    ELSE LET lo == CHOOSE x \in T : \A y \in T : TimeKey(x) <= TimeKey(y)
         IN <<lo>> \o TimeAxis(T \ {lo})

\* the elements of a sequence
Range(s) == {s[k] : k \in 1..Len(s)}

\* an emptiness test that never fires
empty_never(table) == FALSE

\* the .empty attribute of a table or an index
empty(table) == Len(table) = 0

(***************************************************************************)
(* The remote store, the land oracle and the external tool.                *)
(***************************************************************************)
\* latitude and longitude axes of the store's grid (sixteenths of a degree)
GridLat == <<160>>
GridLon == <<320, 960>>

\* a humidity reading that is present
Humid == 75

\* global_land_mask.globe.is_land, on the points used here
LandCells == {<<160, 320>>, <<168, 330>>, <<184, 350>>}
is_land(lat, lon) == <<lat, lon>> \in LandCells

\* the stores a run may meet: a time axis and a value, or NaN, per grid point
Stores ==
    UNION { { [time |-> TimeAxis(T), RH2M |-> f] :
                f \in [T \X Range(GridLat) \X Range(GridLon) -> {NaN, Humid}] } :
            T \in {U \in SUBSET CandidateTimes : Cardinality(U) <= MaxTimes} }

\* outcomes of writing a file: written, or an I/O error that leaves no file
\* or a truncated one
WriteOutcomes == {"ok", "error", "error_truncated"}

\* outcomes of running tippecanoe: exit status 0, a non-zero exit status, or
\* the process cannot be launched
ToolOutcomes == {"exit0", "exit1", "oserror"}

(***************************************************************************)
(* State.                                                                  *)
(***************************************************************************)
VARIABLES
    pc,             \* position of run_complete_pipeline
    ds,             \* the remote Zarr store
    df,             \* the table returned by download_humidity_data
    fs,             \* the files on disk: path -> content
    monthly_files,  \* list built by split_monthly_data
    geojson_files,  \* list built by create_geojsons
    mbtiles_files,  \* list built by create_mbtiles
    i,              \* cursor of the for loop of the current stage
    calls           \* the units of work attempted so far, with their results

vars == <<pc, ds, df, fs, monthly_files, geojson_files, mbtiles_files, i, calls>>

\* the file system after a write of content to path with the given outcome
WriteFile(files, path, content, outcome) ==
    IF outcome = "ok" THEN (path :> content) @@ files
    ELSE IF outcome = "error_truncated" THEN (path :> [kind |-> "truncated"]) @@ files
    ELSE files

(***************************************************************************)
(* Stage 1: download_humidity_data.                                        *)
(***************************************************************************)
\* ds[VARIABLE].sel(time=filtered_times).to_dataframe().reset_index():
\* one row per (time, lat, lon), time-major
to_dataframe(store, times) ==
    LET nlat == Len(GridLat)
        nlon == Len(GridLon)
    IN [k \in 1..(Len(times) * nlat * nlon) |->
          LET t == times[((k - 1) \div (nlat * nlon)) + 1]
              lat == GridLat[(((k - 1) \div nlon) % nlat) + 1]
              lon == GridLon[((k - 1) % nlon) + 1]
          IN [time |-> t, lat |-> lat, lon |-> lon, RH2M |-> store.RH2M[<<t, lat, lon>>]]]

\* df.dropna(subset=[VARIABLE])
dropna(table) == SelectSeq(table, LAMBDA row : ~isna(row.RH2M))

\* a timestamp as DataFrame.to_csv writes it
FormatTime(t) == ToString(t.year) \o "-" \o Pad2(t.month) \o "-" \o Pad2(t.day)

\* DataFrame.to_csv(index=False): every field as text, a missing value as
\* the empty field
to_csv(table) ==
    [kind |-> "csv",
     rows |-> [k \in 1..Len(table) |->
                 [time |-> FormatTime(table[k].time),
                  lat |-> ToString(table[k].lat),
                  lon |-> ToString(table[k].lon),
                  RH2M |-> IF isna(table[k].RH2M) THEN "" ELSE ToString(table[k].RH2M)]]]

\* pd.read_csv: numeric fields parsed, the empty field read as NaN, the
\* time column left as text
read_csv(file) ==
    [k \in 1..Len(file.rows) |->
        [time |-> file.rows[k].time,
         lat |-> ParseInt(file.rows[k].lat),
         lon |-> ParseInt(file.rows[k].lon),
         RH2M |-> IF file.rows[k].RH2M = "" THEN NaN ELSE ParseInt(file.rows[k].RH2M)]]

main_csv == join(OUTPUT_DIR, VARIABLE_ \o "_monthly_2022_2025.csv")

\* download_humidity_data, and the "if df is None: return" of the caller
download_humidity_data ==
    /\ pc = "download"
    /\ \E opened \in BOOLEAN, outcome \in WriteOutcomes :
         LET filtered_times == SelectSeq(ds.time, time_filter)
             cleaned == dropna(to_dataframe(ds, filtered_times))
         IN IF ~opened
            THEN /\ pc' = "returned"
                 /\ calls' = Append(calls, [op |-> "download", result |-> "store_error"])
                 /\ UNCHANGED <<df, fs>>
            ELSE IF empty(filtered_times)
            THEN /\ pc' = "returned"
                 /\ calls' = Append(calls, [op |-> "download", result |-> "no_matching_data"])
                 /\ UNCHANGED <<df, fs>>
            ELSE /\ fs' = WriteFile(fs, main_csv, to_csv(cleaned), outcome)
                 /\ IF outcome = "ok"
                    THEN /\ df' = cleaned
                         /\ pc' = "split"
                         /\ calls' = Append(calls, [op |-> "download", result |-> "ok"])
                    ELSE /\ df' = df
                         /\ pc' = "returned"
                         /\ calls' = Append(calls, [op |-> "download", result |-> "write_error"])
    /\ i' = 1
    /\ UNCHANGED <<ds, monthly_files, geojson_files, mbtiles_files>>

(***************************************************************************)
(* Stage 2: split_monthly_data.                                            *)
(***************************************************************************)
\* a grouping by month alone, the year taken from the group's first row
groupby_month_only(table) ==
    LET code(row) == row.time.month
        keys == sorted({code(table[k]) : k \in 1..Len(table)})
    IN [g \in 1..Len(keys) |->
          LET group == SelectSeq(table, LAMBDA row : code(row) = keys[g])
          IN [year |-> group[1].time.year, month |-> keys[g], group |-> group]]

\* df.groupby(['year', 'month']): one group per distinct (year, month) of
\* the time column, in ascending key order, rows in their original order
groupby(table) ==
    LET code(row) == row.time.year * 100 + row.time.month
        keys == sorted({code(table[k]) : k \in 1..Len(table)})
    IN [g \in 1..Len(keys) |->
          [year |-> keys[g] \div 100,
           month |-> keys[g] % 100,
           group |-> SelectSeq(table, LAMBDA row : code(row) = keys[g])]]

\* the file name without the zero padding of the month
monthly_filename_unpadded(year, month) ==
    "humidity_" \o ToString(month) \o "_" \o ToString(year) \o ".csv"

\* f"humidity_{month:02d}_{year}.csv"
monthly_filename(year, month) ==
    "humidity_" \o Pad2(month) \o "_" \o ToString(year) \o ".csv"

\* one iteration of the loop of split_monthly_data; a failed to_csv raises,
\* and nothing in split_monthly_data or its caller catches it
split_monthly_data ==
    /\ pc = "split"
    /\ i <= Len(groupby(df))
    /\ \E outcome \in WriteOutcomes :
         LET g == groupby(df)[i]
             filepath == join(OUTPUT_DIR, monthly_filename(g.year, g.month))
         IN /\ fs' = WriteFile(fs, filepath, to_csv(g.group), outcome)
            /\ calls' = Append(calls, [op |-> "to_csv", arg |-> filepath,
                                       result |-> outcome])
            /\ IF outcome = "ok"
               THEN /\ monthly_files' = Append(monthly_files, filepath)
                    /\ i' = i + 1
                    /\ pc' = pc
               ELSE /\ pc' = "raised"
                    /\ UNCHANGED <<monthly_files, i>>
    /\ UNCHANGED <<ds, df, geojson_files, mbtiles_files>>

\* the loop is exhausted: split_monthly_data returns monthly_files
split_monthly_data_return ==
    /\ pc = "split"
    /\ i > Len(groupby(df))
    /\ pc' = "geojsons"
    /\ i' = 1
    /\ UNCHANGED <<ds, df, fs, monthly_files, geojson_files, mbtiles_files, calls>>

(***************************************************************************)
(* Stage 3: csv_to_geojson and create_geojsons.                            *)
(***************************************************************************)
abs(x) == IF x < 0 THEN 0 - x ELSE x

\* default grid resolutions: 0.5 deg of latitude, 0.625 deg of longitude
DEFAULT_LAT_RES == 8
DEFAULT_LON_RES == 10

\* the land mask left unapplied
land_rows_unfiltered(table) == table

\* df[land_mask]: the rows the oracle classifies as land
land_rows(table) == SelectSeq(table, LAMBDA row : is_land(row.lat, row.lon))

\* a cell size taken from the extent of the coordinates (last minus first)
grid_resolution_extent(df_land) ==
    LET unique_lats == sorted({df_land[k].lat : k \in 1..Len(df_land)})
        unique_lons == sorted({df_land[k].lon : k \in 1..Len(df_land)})
    IN [lat_res |-> IF Len(unique_lats) > 1
                    THEN abs(unique_lats[Len(unique_lats)] - unique_lats[1])
                    ELSE DEFAULT_LAT_RES,
        lon_res |-> IF Len(unique_lons) > 1
                    THEN abs(unique_lons[Len(unique_lons)] - unique_lons[1])
                    ELSE DEFAULT_LON_RES]

\* the grid cell size inferred from the land rows
grid_resolution(df_land) ==
    LET unique_lats == sorted({df_land[k].lat : k \in 1..Len(df_land)})
        unique_lons == sorted({df_land[k].lon : k \in 1..Len(df_land)})
    IN [lat_res |-> IF Len(unique_lats) > 1
                    THEN abs(unique_lats[2] - unique_lats[1])
                    ELSE DEFAULT_LAT_RES,
        lon_res |-> IF Len(unique_lons) > 1
                    THEN abs(unique_lons[2] - unique_lons[1])
                    ELSE DEFAULT_LON_RES]

\* a feature whose ring lists the corners as SW, SE, NW, NE, SW
feature_crossed(row, lat_res, lon_res) ==
    LET lat == row.lat
        lon == row.lon
        half_lat == lat_res \div 2
        half_lon == lon_res \div 2
    IN [type |-> "Feature",
        geometry |->
            [type |-> "Polygon",
             coordinates |-> << << <<lon - half_lon, lat - half_lat>>,
                                   <<lon + half_lon, lat - half_lat>>,
                                   <<lon - half_lon, lat + half_lat>>,
                                   <<lon + half_lon, lat + half_lat>>,
                                   <<lon - half_lon, lat - half_lat>> >> >>],
        properties |-> [humidity |-> row.RH2M, time |-> row.time,
                        lat |-> lat, lon |-> lon]]

\* the GeoJSON feature of one row
feature(row, lat_res, lon_res) ==
    LET lat == row.lat
        lon == row.lon
        half_lat == lat_res \div 2
        half_lon == lon_res \div 2
    IN [type |-> "Feature",
        geometry |->
            [type |-> "Polygon",
             coordinates |-> << << <<lon - half_lon, lat - half_lat>>,
                                   <<lon + half_lon, lat - half_lat>>,
                                   <<lon + half_lon, lat + half_lat>>,
                                   <<lon - half_lon, lat + half_lat>>,
                                   <<lon - half_lon, lat - half_lat>> >> >>],
        properties |-> [humidity |-> row.RH2M, time |-> row.time,
                        lat |-> lat, lon |-> lon]]

\* features built without the NaN test
land_features_keep_nan(df_land) ==
    LET res == grid_resolution(df_land)
    IN [k \in 1..Len(df_land) |-> feature(df_land[k], res.lat_res, res.lon_res)]

\* the features built from the land rows: rows with a NaN value are skipped
land_features(df_land) ==
    LET res == grid_resolution(df_land)
        kept == SelectSeq(df_land, LAMBDA row : ~isna(row.RH2M))
    IN [k \in 1..Len(kept) |-> feature(kept[k], res.lat_res, res.lon_res)]

\* csv_to_geojson that reports "no output" when no feature was built
csv_to_geojson_requires_features(files, csv_file, output_geojson, outcome) ==
    IF csv_file \notin DOMAIN files \/ files[csv_file].kind # "csv"
    THEN [ok |-> FALSE, fs |-> files]
    ELSE LET table == read_csv(files[csv_file])
             df_land == land_rows(table)
         IN IF empty(table) THEN [ok |-> FALSE, fs |-> files]
            ELSE IF empty(df_land) THEN [ok |-> FALSE, fs |-> files]
            ELSE IF empty(land_features(df_land)) THEN [ok |-> FALSE, fs |-> files]
            ELSE [ok |-> outcome = "ok",
                  fs |-> WriteFile(files, output_geojson,
                                   [kind |-> "geojson",
                                    type |-> "FeatureCollection",
                                    features |-> land_features(df_land)],
                                   outcome)]

\* csv_to_geojson that reports success whether or not the write succeeded
csv_to_geojson_ignores_write_error(files, csv_file, output_geojson, outcome) ==
    IF csv_file \notin DOMAIN files \/ files[csv_file].kind # "csv"
    THEN [ok |-> FALSE, fs |-> files]
    ELSE LET table == read_csv(files[csv_file])
             df_land == land_rows(table)
         IN IF empty(table) THEN [ok |-> FALSE, fs |-> files]
            ELSE IF empty(df_land) THEN [ok |-> FALSE, fs |-> files]
            ELSE [ok |-> TRUE,
                  fs |-> WriteFile(files, output_geojson,
                                   [kind |-> "geojson",
                                    type |-> "FeatureCollection",
                                    features |-> land_features(df_land)],
                                   outcome)]

\* csv_to_geojson(csv_file, output_geojson): the value returned and the files
\* afterwards; any exception (unreadable CSV, failed write) returns False
csv_to_geojson(files, csv_file, output_geojson, outcome) ==
    IF csv_file \notin DOMAIN files \/ files[csv_file].kind # "csv"
    THEN [ok |-> FALSE, fs |-> files]
    ELSE LET table == read_csv(files[csv_file])
             df_land == land_rows(table)
         IN IF empty(table) THEN [ok |-> FALSE, fs |-> files]
            ELSE IF empty(df_land) THEN [ok |-> FALSE, fs |-> files]
            ELSE [ok |-> outcome = "ok",
                  fs |-> WriteFile(files, output_geojson,
                                   [kind |-> "geojson",
                                    type |-> "FeatureCollection",
                                    features |-> land_features(df_land)],
                                   outcome)]

\* name of the GeoJSON written for a monthly CSV
geojson_path(csv_file) ==
    LET base_name == StrReplace(basename(csv_file), ".csv", "")
    IN join(OUTPUT_DIR, base_name \o "_land.geojson")

\* a loop that submits a monthly table a second time when its first
\* polygonization failed
create_geojsons_retry_once ==
    /\ pc = "geojsons"
    /\ i <= Len(monthly_files)
    /\ \E outcome \in WriteOutcomes :
         LET csv_file == monthly_files[i]
             geojson_file == geojson_path(csv_file)
             r == csv_to_geojson(fs, csv_file, geojson_file, outcome)
             first == \A n \in 1..Len(calls) :
                         ~(calls[n].op = "csv_to_geojson" /\ calls[n].arg = csv_file)
         IN /\ fs' = r.fs
            /\ geojson_files' = IF r.ok THEN Append(geojson_files, geojson_file)
                                ELSE geojson_files
            /\ calls' = Append(calls, [op |-> "csv_to_geojson", arg |-> csv_file,
                                       result |-> IF r.ok THEN "True" ELSE "False"])
            /\ i' = IF ~r.ok /\ first THEN i ELSE i + 1
    /\ UNCHANGED <<pc, ds, df, monthly_files, mbtiles_files>>

\* one iteration of the loop of create_geojsons
create_geojsons ==
    /\ pc = "geojsons"
    /\ i <= Len(monthly_files)
    /\ \E outcome \in WriteOutcomes :
         LET csv_file == monthly_files[i]
             geojson_file == geojson_path(csv_file)
             r == csv_to_geojson(fs, csv_file, geojson_file, outcome)
         IN /\ fs' = r.fs
            /\ geojson_files' = IF r.ok THEN Append(geojson_files, geojson_file)
                                ELSE geojson_files
            /\ calls' = Append(calls, [op |-> "csv_to_geojson", arg |-> csv_file,
                                       result |-> IF r.ok THEN "True" ELSE "False"])
    /\ i' = i + 1
    /\ UNCHANGED <<pc, ds, df, monthly_files, mbtiles_files>>

\* the loop is exhausted: create_geojsons returns geojson_files
create_geojsons_return ==
    /\ pc = "geojsons"
    /\ i > Len(monthly_files)
    /\ pc' = "mbtiles"
    /\ i' = 1
    /\ UNCHANGED <<ds, df, fs, monthly_files, geojson_files, mbtiles_files, calls>>

(***************************************************************************)
(* Stage 4: geojson_to_mbtiles_tippecanoe and create_mbtiles.              *)
(***************************************************************************)
\* the adapter without the test of result.returncode
geojson_to_mbtiles_tippecanoe_unchecked(files, geojson_file, output_mbtiles, outcome) ==
    IF outcome = "oserror" THEN [ok |-> FALSE, fs |-> files]
    ELSE [ok |-> TRUE,
          fs |-> IF outcome = "exit0"
                 THEN (output_mbtiles :> [kind |-> "mbtiles", source |-> geojson_file])
                          @@ files
                 ELSE files]

\* geojson_to_mbtiles_tippecanoe(geojson_file, output_mbtiles): True iff the
\* tool ran and result.returncode == 0; the archive exists after exit 0
geojson_to_mbtiles_tippecanoe(files, geojson_file, output_mbtiles, outcome) ==
    IF outcome = "oserror" THEN [ok |-> FALSE, fs |-> files]
    ELSE LET returncode == IF outcome = "exit0" THEN 0 ELSE 1
         IN IF returncode = 0
            THEN [ok |-> TRUE,
                  fs |-> (output_mbtiles :> [kind |-> "mbtiles", source |-> geojson_file])
                             @@ files]
            ELSE [ok |-> FALSE, fs |-> files]

\* name of the archive built for a GeoJSON file
mbtiles_path(geojson_file) ==
    LET base_name == StrReplace(basename(geojson_file), "_land.geojson", "")
    IN join(MBTILES_DIR, base_name \o "_land.mbtiles")

\* one iteration of the loop of create_mbtiles
create_mbtiles ==
    /\ pc = "mbtiles"
    /\ i <= Len(geojson_files)
    /\ \E outcome \in ToolOutcomes :
         LET geojson_file == geojson_files[i]
             mbtiles_file == mbtiles_path(geojson_file)
             r == geojson_to_mbtiles_tippecanoe(fs, geojson_file, mbtiles_file, outcome)
         IN /\ fs' = r.fs
            /\ mbtiles_files' = IF r.ok THEN Append(mbtiles_files, mbtiles_file)
                                ELSE mbtiles_files
            /\ calls' = Append(calls, [op |-> "tippecanoe", arg |-> geojson_file,
                                       result |-> outcome])
    /\ i' = i + 1
    /\ UNCHANGED <<pc, ds, df, monthly_files, geojson_files>>

\* the loop is exhausted: create_mbtiles returns mbtiles_files
create_mbtiles_return ==
    /\ pc = "mbtiles"
    /\ i > Len(geojson_files)
    /\ pc' = "config"
    /\ i' = 1
    /\ UNCHANGED <<ds, df, fs, monthly_files, geojson_files, mbtiles_files, calls>>

(***************************************************************************)
(* Stage 5: create_tileserver_config.                                      *)
(***************************************************************************)
\* a key that keeps the archive's suffix
layer_name_keeps_suffix(mbtiles_file) == basename(mbtiles_file) \o "_land"

\* key of config["data"] for an archive
layer_name(mbtiles_file) ==
    LET base_name == StrReplace(basename(mbtiles_file), "_land.mbtiles", "")
    IN base_name \o "_land"

\* config["data"] after the loop over mbtiles_files: a later file replaces
\* an earlier entry under the same key
RECURSIVE config_data(_)
config_data(files) ==
    IF Len(files) = 0 THEN <<>>
    ELSE LET mbtiles_file == files[Len(files)]
         IN (layer_name(mbtiles_file) :> [mbtiles |-> basename(mbtiles_file)])
                @@ config_data(SubSeq(files, 1, Len(files) - 1))

config_file == "humidity-tileserver-config.json"

\* create_tileserver_config; a failed write raises and nothing catches it
create_tileserver_config ==
    /\ pc = "config"
    /\ \E outcome \in WriteOutcomes :
         LET config ==
               [kind |-> "json",
                options |-> [paths |-> [root |-> "", mbtiles |-> "./" \o MBTILES_DIR],
                             serveStaticMaps |-> TRUE,
                             formatQuality |-> [jpeg |-> 90, webp |-> 90],
                             maxSize |-> 8192,
                             pbfAlias |-> "pbf"],
                data |-> config_data(mbtiles_files)]
         IN /\ fs' = WriteFile(fs, config_file, config, outcome)
            /\ calls' = Append(calls, [op |-> "config", arg |-> config_file,
                                       result |-> outcome])
            /\ pc' = IF outcome = "ok" THEN "viewer" ELSE "raised"
    /\ UNCHANGED <<ds, df, monthly_files, geojson_files, mbtiles_files, i>>

(***************************************************************************)
(* Stage 6: create_web_viewer.                                             *)
(***************************************************************************)
\* the values of the options of yearSelect and monthSelect in the page
yearSelect == {"2022", "2023", "2024", "2025"}
monthSelect == {"01", "02", "03", "04", "05", "06", "07", "08", "09", "10", "11", "12"}

\* the layer id updateLayer() requests for a selection
layerId(year, month) == "humidity_" \o month \o "_" \o year \o "_land"

viewer_file == "humidity-viewer.html"

\* create_web_viewer, then the end of run_complete_pipeline; a failed write
\* raises and nothing catches it
create_web_viewer ==
    /\ pc = "viewer"
    /\ \E outcome \in WriteOutcomes :
         /\ fs' = WriteFile(fs, viewer_file, [kind |-> "html"], outcome)
         /\ calls' = Append(calls, [op |-> "viewer", arg |-> viewer_file,
                                    result |-> outcome])
         /\ pc' = IF outcome = "ok" THEN "done" ELSE "raised"
    /\ UNCHANGED <<ds, df, monthly_files, geojson_files, mbtiles_files, i>>

(***************************************************************************)
(* The run of the whole pipeline.                                          *)
(***************************************************************************)
\* after HumidityProcessor(): the two output directories exist and are
\* empty, and run_complete_pipeline is about to call stage 1
Init ==
    /\ pc = "download"
    /\ ds \in Stores
    /\ df = <<>>
    /\ fs = <<>>
    /\ monthly_files = <<>>
    /\ geojson_files = <<>>
    /\ mbtiles_files = <<>>
    /\ i = 1
    /\ calls = <<>>

Next ==
    \/ download_humidity_data
    \/ split_monthly_data
    \/ split_monthly_data_return
    \/ create_geojsons
    \/ create_geojsons_return
    \/ create_mbtiles
    \/ create_mbtiles_return
    \/ create_tileserver_config
    \/ create_web_viewer

Spec == Init /\ [][Next]_vars

(***************************************************************************)
(* Stages 3 to 6 run on a monthly CSV that is already on disk: df is the    *)
(* table the CSV was written from.                                         *)
(***************************************************************************)
\* the samples a monthly CSV is made of: three land points with unequal
\* gaps, one ocean point south-east of them, each with or without a value
SamplePoints == {<<160, 320>>, <<168, 330>>, <<184, 350>>, <<0, 960>>}
SampleRows ==
    { [time |-> Timestamp(2024, 6, 1), lat |-> p[1], lon |-> p[2], RH2M |-> v] :
        p \in SamplePoints, v \in {NaN, Humid} }

\* tables of at most n rows
Tables(n) == UNION { [1..k -> SampleRows] : k \in 0..n }

sample_csv == join(OUTPUT_DIR, monthly_filename(2024, 6))

InitGeo ==
    /\ pc = "geojsons"
    /\ ds = [time |-> <<>>, RH2M |-> <<>>]
    /\ df \in Tables(MaxRows)
    /\ fs = (sample_csv :> to_csv(df))
    /\ monthly_files = <<sample_csv>>
    /\ geojson_files = <<>>
    /\ mbtiles_files = <<>>
    /\ i = 1
    /\ calls = <<>>

NextGeo ==
    \/ create_geojsons
    \/ create_geojsons_return
    \/ create_mbtiles
    \/ create_mbtiles_return
    \/ create_tileserver_config
    \/ create_web_viewer

SpecGeo == InitGeo /\ [][NextGeo]_vars

(***************************************************************************)
(* Properties.                                                             *)
(***************************************************************************)
\* the calendar months a table's rows may fall in
Months == (2021..2025) \X (1..12)

\* the indices of the rows of df whose timestamp falls in month ym
RowsOfMonth(ym) ==
    {k \in 1..Len(df) : df[k].time.year = ym[1] /\ df[k].time.month = ym[2]}

\* the names the artifacts of month ym are expected to carry
ExpectedCsv(ym) ==
    OUTPUT_DIR \o "/humidity_" \o Pad2(ym[2]) \o "_" \o ToString(ym[1]) \o ".csv"
ExpectedGeojson(ym) ==
    OUTPUT_DIR \o "/humidity_" \o Pad2(ym[2]) \o "_" \o ToString(ym[1]) \o "_land.geojson"
ExpectedMbtiles(ym) ==
    MBTILES_DIR \o "/humidity_" \o Pad2(ym[2]) \o "_" \o ToString(ym[1]) \o "_land.mbtiles"
ExpectedLayer(ym) ==
    "humidity_" \o Pad2(ym[2]) \o "_" \o ToString(ym[1]) \o "_land"

\* a row read back from a CSV is the row of a table
SameRow(read, row) ==
    /\ ParseInt(SubSeq(read.time, 1, 4)) = row.time.year
    /\ SubSeq(read.time, 5, 5) = "-"
    /\ ParseInt(SubSeq(read.time, 6, 7)) = row.time.month
    /\ SubSeq(read.time, 8, 8) = "-"
    /\ ParseInt(SubSeq(read.time, 9, 10)) = row.time.day
    /\ Len(read.time) = 10
    /\ read.lat = row.lat
    /\ read.lon = row.lon
    /\ read.RH2M = row.RH2M

\* the stage the run is in, or was in when it ended (7: all stages done)
Stage ==
    CASE pc \in {"download", "returned"} -> 1
      [] pc = "split" -> 2
      [] pc = "geojsons" -> 3
      [] pc = "mbtiles" -> 4
      [] pc = "config" -> 5
      [] pc = "viewer" -> 6
      [] pc = "done" -> 7
      [] pc = "raised" ->
            LET op == calls[Len(calls)].op
            IN IF op = "to_csv" THEN 2 ELSE IF op = "config" THEN 5 ELSE 6

\* split_monthly_data, create_geojsons, create_mbtiles have returned
SplitReturned == Stage >= 3
GeojsonsReturned == Stage >= 4
MbtilesReturned == Stage >= 5

\* the positions in calls of the attempts of op on arg
Attempts(op, arg) == {n \in 1..Len(calls) : calls[n].op = op /\ calls[n].arg = arg}

\* the tileserver config is on disk, and its "data" section
ConfigWritten == config_file \in DOMAIN fs /\ fs[config_file].kind = "json"
ConfigData == fs[config_file].data

\* C1: the monthly tables split_monthly_data writes are keyed by exactly the
\* distinct (year, month) pairs of the input rows, one table per pair, and
\* the table of a month holds exactly the input rows of that month, each
\* once: no row is lost, duplicated or filed under another month.
C1_MonthlyPartition ==
    SplitReturned =>
      LET present == {ym \in Months : RowsOfMonth(ym) # {}}
      IN /\ Range(monthly_files) = {ExpectedCsv(ym) : ym \in present}
         /\ Len(monthly_files) = Cardinality(present)
         /\ \A ym \in present :
              LET rows == read_csv(fs[ExpectedCsv(ym)])
              IN /\ Len(rows) = Cardinality(RowsOfMonth(ym))
                 /\ \A j \in 1..Len(rows) :
                      \E k \in RowsOfMonth(ym) : SameRow(rows[j], df[k])
                 /\ \A k \in RowsOfMonth(ym) :
                      \E j \in 1..Len(rows) : SameRow(rows[j], df[k])

\* two months were split, one of them with rows of more than one grid point
C1_Witness ==
    /\ SplitReturned
    /\ Len(monthly_files) = 2
    /\ \E ym \in Months : Cardinality(RowsOfMonth(ym)) >= 2

\* the inclusive month range 2022-01 .. 2025-05
InRange(t) ==
    LET ym == t.year * 100 + t.month
    IN 202201 <= ym /\ ym <= 202505

\* download_humidity_data has returned a table
Fetched == Len(calls) >= 1 /\ calls[1].op = "download" /\ calls[1].result = "ok"

\* C9: time_filter accepts a timestamp iff its month lies in the inclusive
\* range 2022-01 .. 2025-05, and the table the fetcher returns holds exactly
\* the store's samples of that range that have a value: no row outside the
\* range, no row with a missing value.
C9_FetchRestricted ==
    /\ \A y \in 2020..2027, m \in 1..12 :
         time_filter(Timestamp(y, m, 1)) <=> InRange(Timestamp(y, m, 1))
    /\ Fetched =>
         /\ \A k \in 1..Len(df) : InRange(df[k].time) /\ df[k].RH2M # NaN
         /\ Range(df) =
              { [time |-> c[1], lat |-> c[2], lon |-> c[3], RH2M |-> ds.RH2M[c]] :
                  c \in {d \in DOMAIN ds.RH2M : InRange(d[1]) /\ ds.RH2M[d] # NaN} }

\* the store held both end months and the months next to them were dropped or
\* kept as the range says, and a missing value was dropped
C9_Witness ==
    /\ Fetched
    /\ Timestamp(2025, 5, 1) \in Range(ds.time)
    /\ Timestamp(2025, 6, 1) \in Range(ds.time)
    /\ \E c \in DOMAIN ds.RH2M : InRange(c[1]) /\ ds.RH2M[c] = NaN
    /\ Len(df) = 1
    /\ df[1].time = Timestamp(2025, 5, 1)

\* C5: when no timestamp of the store lies in the requested range, the run
\* ends right after stage 1 with a data-source error: no later stage is
\* attempted and no file is created.
C5_EmptyRangeAborts ==
    ((\A t \in Range(ds.time) : ~InRange(t)) /\ pc # "download") =>
        /\ pc = "returned"
        /\ DOMAIN fs = {}
        /\ monthly_files = <<>> /\ geojson_files = <<>> /\ mbtiles_files = <<>>
        /\ Len(calls) = 1
        /\ calls[1].op = "download"
        /\ calls[1].result \in {"no_matching_data", "store_error"}

\* the store was opened, had timestamps, none of them in range
C5_Witness ==
    /\ pc = "returned"
    /\ ds.time # <<>>
    /\ \A t \in Range(ds.time) : ~InRange(t)
    /\ calls[1].result = "no_matching_data"

\* month ym has a monthly table and none of its rows is on land
NoLand(ym) ==
    /\ RowsOfMonth(ym) # {}
    /\ \A k \in RowsOfMonth(ym) : ~is_land(df[k].lat, df[k].lon)

\* month b comes after month a in the list of monthly tables
Later(a, b) == RowsOfMonth(b) # {} /\ a[1] * 100 + a[2] < b[1] * 100 + b[2]

\* C3: a monthly table with no land row yields no geometry document, no tile
\* archive and no config entry, and is never handed to the tile builder;
\* every later month is still handed to the polygonizer, and to the tile
\* builder when its geometry document was produced.
C3_ZeroLandMonthSkipped ==
    \A ym \in Months : NoLand(ym) =>
        /\ ExpectedGeojson(ym) \notin DOMAIN fs
        /\ ExpectedGeojson(ym) \notin Range(geojson_files)
        /\ Attempts("tippecanoe", ExpectedGeojson(ym)) = {}
        /\ ExpectedMbtiles(ym) \notin DOMAIN fs
        /\ ExpectedMbtiles(ym) \notin Range(mbtiles_files)
        /\ ConfigWritten => ExpectedLayer(ym) \notin DOMAIN ConfigData
        /\ GeojsonsReturned =>
             \A b \in Months : Later(ym, b) =>
                 Attempts("csv_to_geojson", ExpectedCsv(b)) # {}
        /\ MbtilesReturned =>
             \A b \in Months :
                 (Later(ym, b) /\ ExpectedGeojson(b) \in Range(geojson_files)) =>
                     Attempts("tippecanoe", ExpectedGeojson(b)) # {}

\* a run finished in which a month without land rows came before a month
\* that got its archive and its config entry
C3_Witness ==
    /\ pc = "done"
    /\ \E a \in Months, b \in Months :
         /\ NoLand(a)
         /\ Later(a, b)
         /\ Attempts("csv_to_geojson", ExpectedCsv(a)) # {}
         /\ ExpectedMbtiles(b) \in DOMAIN fs
         /\ ExpectedLayer(b) \in DOMAIN ConfigData

\* the month whose geometry document has the given path
MonthOfGeojson(path) == CHOOSE ym \in Months : ExpectedGeojson(ym) = path

\* C6: for every geometry document handed to the tile builder, its archive is
\* in the produced list iff the tool exited with status 0 (a non-zero exit
\* and a failure to launch both leave it out), and once create_mbtiles has
\* returned every geometry document of the batch was submitted exactly once,
\* whatever the outcome of the ones before it.
C6_ToolExitStatus ==
    /\ \A n \in 1..Len(calls) : calls[n].op = "tippecanoe" =>
         /\ \E ym \in Months : ExpectedGeojson(ym) = calls[n].arg
         /\ (ExpectedMbtiles(MonthOfGeojson(calls[n].arg)) \in Range(mbtiles_files))
               <=> (calls[n].result = "exit0")
    /\ pc = "mbtiles" =>
         \A k \in 1..Len(geojson_files) :
             Cardinality(Attempts("tippecanoe", geojson_files[k])) = IF k < i THEN 1 ELSE 0
    /\ MbtilesReturned =>
         \A k \in 1..Len(geojson_files) :
             Cardinality(Attempts("tippecanoe", geojson_files[k])) = 1

\* the tool failed on the first document and was still run, with success, on
\* the second
C6_Witness ==
    /\ MbtilesReturned
    /\ Len(geojson_files) = 2
    /\ \E n \in 1..Len(calls) :
         /\ calls[n].op = "tippecanoe" /\ calls[n].arg = geojson_files[1]
         /\ calls[n].result = "exit1"
    /\ \E n \in 1..Len(calls) :
         /\ calls[n].op = "tippecanoe" /\ calls[n].arg = geojson_files[2]
         /\ calls[n].result = "exit0"
    /\ Len(mbtiles_files) = 1

\* the months whose archive the tool built with exit status 0
Built ==
    {ym \in Months : \E n \in Attempts("tippecanoe", ExpectedGeojson(ym)) :
                        calls[n].result = "exit0"}

\* the months whose polygonization or tiling was attempted and failed
Failed ==
    {ym \in Months :
        \/ \E n \in Attempts("csv_to_geojson", ExpectedCsv(ym)) : calls[n].result = "False"
        \/ \E n \in Attempts("tippecanoe", ExpectedGeojson(ym)) : calls[n].result # "exit0"}

\* C4: once the config is written, the keys under "data" are exactly the
\* layer names of the months whose archive was built with exit status 0, one
\* key per archive, each pointing at that month's archive; a month whose
\* polygonization or tiling failed has no key.
C4_ConfigKeys ==
    ConfigWritten =>
        /\ DOMAIN ConfigData = {ExpectedLayer(ym) : ym \in Built}
        /\ Cardinality(DOMAIN ConfigData) = Cardinality(Built)
        /\ Cardinality(DOMAIN ConfigData) = Len(mbtiles_files)
        /\ \A ym \in Built :
             /\ MBTILES_DIR \o "/" \o ConfigData[ExpectedLayer(ym)].mbtiles = ExpectedMbtiles(ym)
             /\ ExpectedMbtiles(ym) \in DOMAIN fs
        /\ \A ym \in Failed : ExpectedLayer(ym) \notin DOMAIN ConfigData

\* a config with one key, written after one month was built and another
\* month's tiling failed
C4_Witness ==
    /\ ConfigWritten
    /\ Cardinality(DOMAIN ConfigData) = 1
    /\ Cardinality(Built) = 1
    /\ Cardinality(Failed) = 1

\* the writes that run_complete_pipeline does outside any try block
UncaughtOps == {"to_csv", "config", "viewer"}

\* C7 as stated: once stage 1 has returned a table, no failure of a later
\* unit of work ends the run.
C7_OnlyFetchIsFatal == Fetched => pc # "raised"

\* C7, amended: once stage 1 has returned a table, a failed polygonization or
\* tiling of one month is caught, that month is left out of the lists handed
\* downstream (which hold only documents and archives written in full) and
\* the run goes on with the next unit of work; the run ends
\* early only on a failed write of a monthly table, of the config or of the
\* viewer, which raises an exception that nothing catches.
C7_StageLocalFailures ==
    /\ pc = "raised" =>
         /\ Fetched
         /\ calls[Len(calls)].op \in UncaughtOps
         /\ calls[Len(calls)].result # "ok"
    /\ \A n \in 1..Len(calls) :
         (calls[n].op \in UncaughtOps /\ calls[n].result # "ok") =>
             (n = Len(calls) /\ pc = "raised")
    /\ \A ym \in Failed :
         /\ ExpectedMbtiles(ym) \notin Range(mbtiles_files)
         /\ ConfigWritten => ExpectedLayer(ym) \notin DOMAIN ConfigData
         /\ (\E n \in Attempts("csv_to_geojson", ExpectedCsv(ym)) : calls[n].result = "False")
               => /\ ExpectedGeojson(ym) \notin Range(geojson_files)
                  /\ Attempts("tippecanoe", ExpectedGeojson(ym)) = {}
    /\ \A k \in 1..Len(geojson_files) :
         /\ geojson_files[k] \in DOMAIN fs
         /\ fs[geojson_files[k]].kind = "geojson"
    /\ \A k \in 1..Len(mbtiles_files) :
         /\ mbtiles_files[k] \in DOMAIN fs
         /\ fs[mbtiles_files[k]].kind = "mbtiles"
    /\ \A n \in 1..Len(calls) :
         (/\ n = Len(calls)
          /\ \/ calls[n].op = "csv_to_geojson" /\ calls[n].result = "False"
             \/ calls[n].op = "tippecanoe" /\ calls[n].result # "exit0")
            => pc \in {"geojsons", "mbtiles", "config"}
    /\ pc = "done" =>
         /\ Attempts("config", config_file) # {}
         /\ Attempts("viewer", viewer_file) # {}
         /\ \A k \in 1..Len(monthly_files) :
              Attempts("csv_to_geojson", monthly_files[k]) # {}
         /\ \A k \in 1..Len(geojson_files) :
              Attempts("tippecanoe", geojson_files[k]) # {}

\* a run went through all six stages although one month's polygonization and
\* another month's tiling had failed
C7_Witness ==
    /\ pc = "done"
    /\ \E a \in Failed, b \in Failed :
         /\ \E n \in Attempts("csv_to_geojson", ExpectedCsv(a)) : calls[n].result = "False"
         /\ is_land(df[CHOOSE k \in RowsOfMonth(a) : TRUE].lat,
                    df[CHOOSE k \in RowsOfMonth(a) : TRUE].lon)
         /\ \E n \in Attempts("tippecanoe", ExpectedGeojson(b)) : calls[n].result = "exit1"

\* the month a feature's time property falls in
MonthOfTime(time) == <<ParseInt(SubSeq(time, 1, 4)), ParseInt(SubSeq(time, 6, 7))>>

\* the name a month's data carries from the monthly table to the config key
NameChain(ym) ==
    layer_name(mbtiles_path(geojson_path(join(OUTPUT_DIR, monthly_filename(ym[1], ym[2])))))

\* the months of the requested range
RangeMonths == {ym \in Months : InRange(Timestamp(ym[1], ym[2], 1))}

\* C10: the archive the tool built from a month's geometry document is
\* listed in the config under humidity_<MM>_<YYYY>_land (month zero-padded to
\* two digits) for the year and month of the document's samples, that key is
\* the layer id the viewer requests for that year and month selection, and
\* the names of distinct months of the range differ.
C10_LayerNaming ==
    /\ ConfigWritten =>
         \A n \in 1..Len(calls) :
             (calls[n].op = "tippecanoe" /\ calls[n].result = "exit0") =>
                 LET features == fs[calls[n].arg].features
                 IN \A j \in 1..Len(features) :
                      LET ym == MonthOfTime(features[j].properties.time)
                          key == ExpectedLayer(ym)
                      IN /\ key \in DOMAIN ConfigData
                         /\ fs[MBTILES_DIR \o "/" \o ConfigData[key].mbtiles].source
                               = calls[n].arg
                         /\ \E year \in yearSelect, month \in monthSelect :
                              /\ ParseInt(year) = ym[1]
                              /\ ParseInt(month) = ym[2]
                              /\ layerId(year, month) = key
    /\ pc = "done" =>
         /\ \A ym \in RangeMonths : NameChain(ym) = ExpectedLayer(ym)
         /\ Cardinality({NameChain(ym) : ym \in RangeMonths}) = Cardinality(RangeMonths)

\* the config lists the layer of 2024-06 and of one more month
C10_Witness ==
    /\ ConfigWritten
    /\ pc = "done"
    /\ "humidity_06_2024_land" \in DOMAIN ConfigData
    /\ Cardinality(DOMAIN ConfigData) = 2
    /\ Len(fs[OUTPUT_DIR \o "/humidity_06_2024_land.geojson"].features) >= 1

\* the geometry document of the monthly CSV handed to stage 3
SampleGeojson == ExpectedGeojson(<<2024, 6>>)
DocWritten == SampleGeojson \in DOMAIN fs /\ fs[SampleGeojson].kind = "geojson"

\* the rows of the monthly table that are on land, and those of them that
\* have a value
LandIndex == {k \in 1..Len(df) : is_land(df[k].lat, df[k].lon)}
CellIndex == {k \in LandIndex : df[k].RH2M # NaN}

\* the outer ring of a feature's polygon
Ring(f) == f.geometry.coordinates[1]

\* C2: the geometry document csv_to_geojson writes holds exactly one feature
\* per row that is on land and has a value, in row order, whose polygon is
\* centred on the row's (lon, lat); ocean rows and rows with a missing value
\* give no feature, so the number of features is the number of land rows
\* with a value.
C2_OneCellPerLandSample ==
    DocWritten =>
        LET features == fs[SampleGeojson].features
            cells == sorted(CellIndex)
        IN /\ Len(features) = Cardinality(CellIndex)
           /\ \A j \in 1..Len(features) :
                LET row == df[cells[j]]
                    ring == Ring(features[j])
                IN /\ ring[1][1] + ring[2][1] + ring[3][1] + ring[4][1] = 4 * row.lon
                   /\ ring[1][2] + ring[2][2] + ring[3][2] + ring[4][2] = 4 * row.lat
                   /\ features[j].properties.lat = row.lat
                   /\ features[j].properties.lon = row.lon
                   /\ features[j].properties.humidity = row.RH2M
           /\ \A j \in 1..Len(features) :
                /\ is_land(features[j].properties.lat, features[j].properties.lon)
                /\ features[j].properties.humidity # NaN

\* a table with a land row with a value, a land row without and an ocean row
\* with a value gave a document of one feature
C2_Witness ==
    /\ DocWritten
    /\ Len(df) = 3
    /\ Cardinality(LandIndex) = 2
    /\ Cardinality(CellIndex) = 1
    /\ \E k \in 1..Len(df) : ~is_land(df[k].lat, df[k].lon) /\ df[k].RH2M # NaN
    /\ Len(fs[SampleGeojson].features) = 1

\* the difference between the two smallest elements of S, or the default
\* when S has fewer than two elements
Spacing(S, default) ==
    IF Cardinality(S) >= 2
    THEN LET a == CHOOSE x \in S : \A y \in S : x <= y
             b == CHOOSE x \in S \ {a} : \A y \in S \ {a} : x <= y
         IN IF b >= a THEN b - a ELSE a - b
    ELSE default

\* C8: the latitude spacing csv_to_geojson infers is the absolute difference
\* of the two smallest distinct latitudes of the land rows, or 0.5 deg when
\* there are fewer than two; the longitude spacing likewise, independently,
\* with default 0.625 deg; both are strictly positive, and every cell of the
\* document has exactly that width and height.
C8_GridSpacing ==
    LandIndex # {} =>
        LET lat_res == Spacing({df[k].lat : k \in LandIndex}, 8)
            lon_res == Spacing({df[k].lon : k \in LandIndex}, 10)
        IN /\ lat_res > 0 /\ lon_res > 0
           /\ grid_resolution(land_rows(read_csv(fs[sample_csv])))
                 = [lat_res |-> lat_res, lon_res |-> lon_res]
           /\ DocWritten =>
                \A j \in 1..Len(fs[SampleGeojson].features) :
                    LET ring == Ring(fs[SampleGeojson].features[j])
                    IN /\ ring[2][1] - ring[1][1] = lon_res
                       /\ ring[3][1] - ring[4][1] = lon_res
                       /\ ring[4][2] - ring[1][2] = lat_res
                       /\ ring[3][2] - ring[2][2] = lat_res

\* a document of three cells on three distinct latitudes and longitudes with
\* unequal gaps
C8_Witness ==
    /\ DocWritten
    /\ Len(fs[SampleGeojson].features) = 3
    /\ Cardinality({df[k].lat : k \in LandIndex}) = 3
    /\ Cardinality({df[k].lon : k \in LandIndex}) = 3

\* the text of a time property is the timestamp t
SameTime(text, t) ==
    /\ Len(text) = 10
    /\ ParseInt(SubSeq(text, 1, 4)) = t.year
    /\ ParseInt(SubSeq(text, 6, 7)) = t.month
    /\ ParseInt(SubSeq(text, 9, 10)) = t.day

\* C11: every polygon csv_to_geojson emits is a single closed ring of exactly
\* 5 vertices, first equal to last, whose corners are (lon -+ lon_spacing/2,
\* lat -+ lat_spacing/2) in the order SW, SE, NE, NW, SW: an axis-parallel
\* rectangle of positive width and height walked around once, hence not
\* self-intersecting; the feature carries the value and the timestamp of the
\* row it was built from.
C11_ClosedRectangle ==
    DocWritten =>
        LET features == fs[SampleGeojson].features
            cells == sorted(CellIndex)
            lat_res == Spacing({df[k].lat : k \in LandIndex}, 8)
            lon_res == Spacing({df[k].lon : k \in LandIndex}, 10)
        IN \A j \in 1..Len(features) :
             LET row == df[cells[j]]
                 ring == Ring(features[j])
                 west == ring[1][1]
                 east == ring[2][1]
                 south == ring[1][2]
                 north == ring[3][2]
             IN /\ Len(features[j].geometry.coordinates) = 1
                /\ features[j].geometry.type = "Polygon"
                /\ Len(ring) = 5
                /\ ring[5] = ring[1]
                /\ west < east /\ south < north
                /\ ring = << <<west, south>>, <<east, south>>, <<east, north>>,
                             <<west, north>>, <<west, south>> >>
                /\ 2 * (row.lon - west) = lon_res /\ 2 * (east - row.lon) = lon_res
                /\ 2 * (row.lat - south) = lat_res /\ 2 * (north - row.lat) = lat_res
                /\ features[j].properties.humidity = row.RH2M
                /\ SameTime(features[j].properties.time, row.time)

\* a document of two cells whose spacing was inferred from the rows, not
\* taken from the defaults
C11_Witness ==
    /\ DocWritten
    /\ Len(fs[SampleGeojson].features) = 2
    /\ Cardinality({df[k].lat : k \in LandIndex}) = 2
    /\ Cardinality({df[k].lon : k \in LandIndex}) = 2
    /\ Ring(fs[SampleGeojson].features[1])[1] # Ring(fs[SampleGeojson].features[2])[1]

\* the stage a unit of work belongs to
OpStage(op) ==
    CASE op = "download" -> 1
      [] op = "to_csv" -> 2
      [] op = "csv_to_geojson" -> 3
      [] op = "tippecanoe" -> 4
      [] op = "config" -> 5
      [] op = "viewer" -> 6

\* the arguments of the attempts of op, in the order they were made, and of
\* those that ended with the given result
Submitted(op) ==
    LET made == SelectSeq(calls, LAMBDA c : c.op = op)
    IN [n \in 1..Len(made) |-> made[n].arg]
Succeeded(op, result) ==
    LET made == SelectSeq(calls, LAMBDA c : c.op = op /\ c.result = result)
    IN [n \in 1..Len(made) |-> made[n].arg]

\* s is the first n elements of t
IsPrefix(s, t) == Len(s) <= Len(t) /\ s = SubSeq(t, 1, Len(s))

\* the months the rows of df fall in
PresentMonths == {<<df[k].time.year, df[k].time.month>> : k \in 1..Len(df)}

\* the months named by a list of monthly tables, documents or archives
CsvMonths == {ym \in PresentMonths : ExpectedCsv(ym) \in Range(monthly_files)}
GeojsonMonths == {ym \in PresentMonths : ExpectedGeojson(ym) \in Range(geojson_files)}
MbtilesMonths == {ym \in PresentMonths : ExpectedMbtiles(ym) \in Range(mbtiles_files)}

\* what has been attempted so far respects the order of the stages: the
\* units of work appear in stage order, none twice, each stage works through
\* the list the stage before it returned, and each list holds the successes
\* of its stage
ForwardSoFar ==
    /\ \A n \in 1..Len(calls) : OpStage(calls[n].op) <= Stage
    /\ \A n \in 1..Len(calls), m \in 1..Len(calls) :
         n < m => /\ OpStage(calls[n].op) <= OpStage(calls[m].op)
                  /\ calls[n].op \in {"download", "config", "viewer"}
                        => calls[m].op # calls[n].op
                  /\ calls[n].op = calls[m].op => calls[n].arg # calls[m].arg
    /\ monthly_files = Succeeded("to_csv", "ok")
    /\ IsPrefix(Submitted("csv_to_geojson"), monthly_files)
    /\ GeojsonsReturned => Submitted("csv_to_geojson") = monthly_files
    /\ Len(geojson_files) = Len(Succeeded("csv_to_geojson", "True"))
    /\ \A k \in 1..Len(geojson_files) :
         \E ym \in PresentMonths : /\ geojson_files[k] = ExpectedGeojson(ym)
                            /\ Succeeded("csv_to_geojson", "True")[k] = ExpectedCsv(ym)
    /\ IsPrefix(Submitted("tippecanoe"), geojson_files)
    /\ MbtilesReturned => Submitted("tippecanoe") = geojson_files
    /\ Len(mbtiles_files) = Len(Succeeded("tippecanoe", "exit0"))
    /\ \A k \in 1..Len(mbtiles_files) :
         \E ym \in PresentMonths : /\ mbtiles_files[k] = ExpectedMbtiles(ym)
                            /\ Succeeded("tippecanoe", "exit0")[k] = ExpectedGeojson(ym)
    /\ ConfigWritten =>
         {MBTILES_DIR \o "/" \o ConfigData[key].mbtiles : key \in DOMAIN ConfigData}
            = Range(mbtiles_files)
    /\ MbtilesMonths \subseteq GeojsonMonths
    /\ GeojsonMonths \subseteq CsvMonths
    /\ Cardinality(MbtilesMonths) = Len(mbtiles_files)
    /\ Cardinality(GeojsonMonths) = Len(geojson_files)
    /\ Cardinality(CsvMonths) = Len(monthly_files)

\* one step of the run goes forward: the stage stays or advances by one, a
\* unit of work belongs to the stage the run is in, and a list changes only
\* during its own stage
ForwardStep ==
    /\ Stage' \in {Stage, Stage + 1}
    /\ pc \notin {"returned", "raised", "done"}
    /\ Len(calls') > Len(calls) =>
         /\ Len(calls') = Len(calls) + 1
         /\ SubSeq(calls', 1, Len(calls)) = calls
         /\ OpStage(calls'[Len(calls')].op) = Stage
    /\ Len(calls') >= Len(calls)
    /\ Stage # 2 => monthly_files' = monthly_files
    /\ Stage # 3 => geojson_files' = geojson_files
    /\ Stage # 4 => mbtiles_files' = mbtiles_files
    /\ Stage' = Stage + 1 =>
         /\ Stage = 2 => Submitted("to_csv") = monthly_files
         /\ Stage = 3 => Submitted("csv_to_geojson") = monthly_files
         /\ Stage = 4 => Submitted("tippecanoe") = geojson_files

\* C12: control only moves forward through stages 1 to 6: a stage is never
\* re-entered or retried, stage k+1 starts only after stage k has worked
\* through its whole input, each month is submitted to the polygonizer and
\* to the tile builder at most once, and each stage's input is exactly the
\* list of successes the stage before it returned, so that the months with
\* an archive are among those with a geometry document, which are among the
\* partitioned months.
C12_StrictlyForward == [][ForwardStep /\ ForwardSoFar']_vars

\* a run went through all six stages with two months partitioned and
\* polygonized and one of them tiled
C12_Witness ==
    /\ pc = "done"
    /\ Len(monthly_files) = 2
    /\ Len(geojson_files) = 2
    /\ Len(mbtiles_files) = 1

\* C13: when at least one row of the monthly table is on land and the write
\* succeeds, csv_to_geojson reports success and writes a document with one
\* feature per land row that has a value, which is no feature at all when
\* every land row has a missing value; a reported success always has its
\* document on disk and in the list handed to the tile builder, which is run
\* on it however many features it holds.
C13_EmptyDocumentStillTiled ==
    /\ LandIndex # {} =>
         LET r == csv_to_geojson(fs, sample_csv, SampleGeojson, "ok")
         IN /\ r.ok
            /\ r.fs[SampleGeojson].kind = "geojson"
            /\ Len(r.fs[SampleGeojson].features) = Cardinality(CellIndex)
    /\ \A n \in Attempts("csv_to_geojson", sample_csv) :
         /\ (calls[n].result = "True") <=> DocWritten
         /\ (calls[n].result = "True") <=> (SampleGeojson \in Range(geojson_files))
         /\ calls[n].result = "True" => LandIndex # {}
    /\ DocWritten => Len(fs[SampleGeojson].features) = Cardinality(CellIndex)
    /\ (MbtilesReturned /\ DocWritten) =>
         Cardinality(Attempts("tippecanoe", SampleGeojson)) = 1

\* a table whose land rows all lack a value gave a document without any
\* feature, and the tile builder was run on it
C13_Witness ==
    /\ LandIndex # {}
    /\ CellIndex = {}
    /\ DocWritten
    /\ fs[SampleGeojson].features = <<>>
    /\ SampleGeojson \in Range(geojson_files)
    /\ Attempts("tippecanoe", SampleGeojson) # {}

====
